---- MODULE Spec2Model ----
(***************************************************************************)
(* Closest pair of points: the quadratic scan (brute_force_closest_pair)   *)
(* and the divide-and-conquer search (closest_pair_dnc, _closest_pair_rec, *)
(* _closest_in_strip) of closest_pair.py.                                  *)
(*                                                                         *)
(* Number representation.  Coordinates are integers.  A distance (a float  *)
(* of the program) is represented by its square: for integer coordinates   *)
(* math.dist returns sqrt(s) with s = dx*dx + dy*dy an integer, and on the *)
(* coordinate ranges used here sqrt is injective and order preserving on   *)
(* such s, so  d1 < d2  is  s1 < s2,  d = 0  is  s = 0, and an integer k   *)
(* compared with a distance,  k < d,  is  k < 0 \/ k*k < s.  float('inf')  *)
(* is the value Inf, larger than every finite distance.                    *)
(***************************************************************************)
EXTENDS Integers, Sequences, FiniteSets, TLC

\* ---------------------------------------------------------------- bounds
\* sequences of at most MaxLen points over (0..SeqX) x (0..SeqY)
SeqX == 2
SeqY == 1
MaxLen == 4
\* sets of at most MaxPts distinct points of (0..MaxX) x (0..MaxY)
MaxX == 2
MaxY == 2
MaxPts == 7
\* a head of at most MaxHead points over (0..DenseX) x (0..DenseY), then a
\* run of at most MaxRun copies of one point
MaxHead == 3
MaxRun == 6
DenseX == 2
DenseY == 1
\* d_min of a direct strip run: sqrt(1) .. sqrt(MaxDMin), and inf
MaxDMin == 3

\* ------------------------------------------------------- values of floats
\* float('inf')
Inf == -1
\* the None of the pair (None, None)
None == <<>>
NoPair == <<None, None>>

\* d1 < d2 on distances (squares, or Inf)
FLt(d1, d2) == d1 # Inf /\ (d2 = Inf \/ d1 < d2)

\* k < d for an integer k and a distance d
IntLtDist(k, d) == d = Inf \/ k < 0 \/ k * k < d

Abs(k) == IF k < 0 THEN -k ELSE k

\* -------------------------------------------------------------- Distance
euclidean_distance(p1, p2) ==
    (p1[1] - p2[1]) * (p1[1] - p2[1]) + (p1[2] - p2[2]) * (p1[2] - p2[2])

\* ------------------------------------------------------ BruteForceSearch
\* the double loop of brute_force_closest_pair, at indices (i, j), 1-based
RECURSIVE BFScan(_, _, _, _, _)
\* variant: a pair at the same distance replaces the recorded one (<=)
BFScan_Le(points, i, j, min_dist, closest_pair) ==
    IF i > Len(points) THEN [dist |-> min_dist, pair |-> closest_pair]
    ELSE IF j > Len(points) THEN BFScan(points, i + 1, i + 2, min_dist, closest_pair)
    ELSE LET d == euclidean_distance(points[i], points[j]) IN
         IF ~FLt(min_dist, d)
         THEN IF d = 0
              THEN [dist |-> 0, pair |-> <<points[i], points[j]>>]
              ELSE BFScan(points, i, j + 1, d, <<points[i], points[j]>>)
         ELSE BFScan(points, i, j + 1, min_dist, closest_pair)

\* variant: the early exit at distance 0 returns the pair recorded before
BFScan_StalePair(points, i, j, min_dist, closest_pair) ==
    IF i > Len(points) THEN [dist |-> min_dist, pair |-> closest_pair]
    ELSE IF j > Len(points) THEN BFScan(points, i + 1, i + 2, min_dist, closest_pair)
    ELSE LET d == euclidean_distance(points[i], points[j]) IN
         IF FLt(d, min_dist)
         THEN IF d = 0
              THEN [dist |-> 0, pair |-> closest_pair]
              ELSE BFScan(points, i, j + 1, d, <<points[i], points[j]>>)
         ELSE BFScan(points, i, j + 1, min_dist, closest_pair)

BFScan(points, i, j, min_dist, closest_pair) ==
    IF i > Len(points) THEN [dist |-> min_dist, pair |-> closest_pair]
    ELSE IF j > Len(points) THEN BFScan(points, i + 1, i + 2, min_dist, closest_pair)
    ELSE LET d == euclidean_distance(points[i], points[j]) IN
         IF FLt(d, min_dist)
         THEN IF d = 0
              THEN [dist |-> 0, pair |-> <<points[i], points[j]>>]
              ELSE BFScan(points, i, j + 1, d, <<points[i], points[j]>>)
         ELSE BFScan(points, i, j + 1, min_dist, closest_pair)

brute_force_closest_pair(points) ==
    IF Len(points) < 2 THEN [dist |-> Inf, pair |-> NoPair]
    ELSE BFScan(points, 1, 2, Inf, NoPair)

\* ------------------------------------------------------------ StripMerge
\* the loops of _closest_in_strip at indices (i, j); counts[i] is the number
\* of executions of the inner loop body (distance comparisons) for outer i
RECURSIVE StripScan(_, _, _, _, _, _)
\* variant: the recorded pair names strip[i] twice
StripScan_SamePoint(strip, i, j, min_dist, closest_pair, counts) ==
    IF i > Len(strip)
    THEN [dist |-> min_dist, pair |-> closest_pair, counts |-> counts]
    ELSE IF j <= Len(strip) /\ IntLtDist(strip[j][2] - strip[i][2], min_dist)
    THEN LET d == euclidean_distance(strip[i], strip[j])
             cnt == [counts EXCEPT ![i] = @ + 1]
         IN  IF FLt(d, min_dist)
             THEN IF d = 0
                  THEN [dist |-> 0, pair |-> <<strip[i], strip[i]>>, counts |-> cnt]
                  ELSE StripScan(strip, i, j + 1, d, <<strip[i], strip[i]>>, cnt)
             ELSE StripScan(strip, i, j + 1, min_dist, closest_pair, cnt)
    ELSE StripScan(strip, i + 1, i + 2, min_dist, closest_pair, counts)

\* variant: the window test reads the x coordinate instead of y
StripScan_XWindow(strip, i, j, min_dist, closest_pair, counts) ==
    IF i > Len(strip)
    THEN [dist |-> min_dist, pair |-> closest_pair, counts |-> counts]
    ELSE IF j <= Len(strip) /\ IntLtDist(strip[j][1] - strip[i][1], min_dist)
    THEN LET d == euclidean_distance(strip[i], strip[j])
             cnt == [counts EXCEPT ![i] = @ + 1]
         IN  IF FLt(d, min_dist)
             THEN IF d = 0
                  THEN [dist |-> 0, pair |-> <<strip[i], strip[j]>>, counts |-> cnt]
                  ELSE StripScan(strip, i, j + 1, d, <<strip[i], strip[j]>>, cnt)
             ELSE StripScan(strip, i, j + 1, min_dist, closest_pair, cnt)
    ELSE StripScan(strip, i + 1, i + 2, min_dist, closest_pair, counts)

StripScan(strip, i, j, min_dist, closest_pair, counts) ==
    IF i > Len(strip)
    THEN [dist |-> min_dist, pair |-> closest_pair, counts |-> counts]
    ELSE IF j <= Len(strip) /\ IntLtDist(strip[j][2] - strip[i][2], min_dist)
    THEN LET d == euclidean_distance(strip[i], strip[j])
             cnt == [counts EXCEPT ![i] = @ + 1]
         IN  IF FLt(d, min_dist)
             THEN IF d = 0
                  THEN [dist |-> 0, pair |-> <<strip[i], strip[j]>>, counts |-> cnt]
                  ELSE StripScan(strip, i, j + 1, d, <<strip[i], strip[j]>>, cnt)
             ELSE StripScan(strip, i, j + 1, min_dist, closest_pair, cnt)
    ELSE StripScan(strip, i + 1, i + 2, min_dist, closest_pair, counts)

StripRun(strip, d_min) ==
    StripScan(strip, 1, 2, d_min, NoPair, [i \in 1..Len(strip) |-> 0])

_closest_in_strip(strip, d_min) ==
    LET r == StripRun(strip, d_min) IN [dist |-> r.dist, pair |-> r.pair]

\* -------------------------------------------------------- RecursiveSplit
\* px[:a] ++ ... : the slice s[a..b], 1-based inclusive
Slice(s, a, b) == [i \in 1..(b - a + 1) |-> s[a + i - 1]]

\* mid = n // 2 is a 0-based index: px[mid] is the element at position mid+1
Mid(px) == Len(px) \div 2
MidX(px) == px[Mid(px) + 1][1]
PxLeft(px) == Slice(px, 1, Mid(px))
PxRight(px) == Slice(px, Mid(px) + 1, Len(px))
PyLeft(px, py) == SelectSeq(py, LAMBDA p : p[1] <= MidX(px))
PyRight(px, py) == SelectSeq(py, LAMBDA p : ~(p[1] <= MidX(px)))

RECURSIVE _closest_pair_rec(_, _)

\* (d_min, closest_pair) after the two recursive calls
Best(px, py) ==
    LET l == _closest_pair_rec(PxLeft(px), PyLeft(px, py))
        r == _closest_pair_rec(PxRight(px), PyRight(px, py))
    IN  IF FLt(l.dist, r.dist) THEN l ELSE r

DMin(px, py) == Best(px, py).dist

\* variant: the strip keeps only the points on or right of the split line
StripOf_RightOnly(px, py, d_min) ==
    SelectSeq(py, LAMBDA p : p[1] >= MidX(px) /\ IntLtDist(p[1] - MidX(px), d_min))

StripOf(px, py, d_min) ==
    SelectSeq(py, LAMBDA p : IntLtDist(Abs(p[1] - MidX(px)), d_min))

Strip(px, py) == StripOf(px, py, DMin(px, py))

\* variant: the strip result is returned on d_strip <= d_min
rec_StripOnTie(px, py) ==
    IF Len(px) <= 3 THEN brute_force_closest_pair(px)
    ELSE LET best == Best(px, py)
             s == _closest_in_strip(StripOf(px, py, best.dist), best.dist)
         IN  IF ~FLt(best.dist, s.dist) THEN s ELSE best

_closest_pair_rec(px, py) ==
    IF Len(px) <= 3 THEN brute_force_closest_pair(px)
    ELSE LET best == Best(px, py)
             s == _closest_in_strip(StripOf(px, py, best.dist), best.dist)
         IN  IF FLt(s.dist, best.dist) THEN s ELSE best

\* the invocations of _closest_pair_rec made by _closest_pair_rec(px, py),
\* itself included
RECURSIVE RecCalls(_, _)
RecCalls(px, py) ==
    {<<px, py>>} \cup
    (IF Len(px) <= 3 THEN {}
     ELSE RecCalls(PxLeft(px), PyLeft(px, py))
          \cup RecCalls(PxRight(px), PyRight(px, py)))

\* ------------------------------------------------ DivideAndConquerSearch
\* sorted(points, key): the stable sort; Insert puts p after every element
\* whose key is not larger
RECURSIVE Insert(_, _, _)
Insert(s, p, k) ==
    IF s = <<>> THEN <<p>>
    ELSE IF s[Len(s)][k] <= p[k] THEN Append(s, p)
    ELSE Append(Insert(SubSeq(s, 1, Len(s) - 1), p, k), s[Len(s)])

RECURSIVE SortedBy(_, _)
SortedBy(s, k) ==
    IF s = <<>> THEN <<>>
    ELSE Insert(SortedBy(SubSeq(s, 1, Len(s) - 1), k), s[Len(s)], k)

\* px = sorted(points, key=lambda p: p[0])
Px(points) == SortedBy(points, 1)

\* variant: py sorted by the x coordinate
Py_ByX(points) == SortedBy(points, 1)

\* py = sorted(points, key=lambda p: p[1])
Py(points) == SortedBy(points, 2)

closest_pair_dnc(points) ==
    IF Len(points) < 2 THEN [dist |-> Inf, pair |-> NoPair]
    ELSE _closest_pair_rec(Px(points), Py(points))

\* the invocations of _closest_pair_rec made by closest_pair_dnc(points)
DncCalls(points) ==
    IF Len(points) < 2 THEN {}
    ELSE RecCalls(Px(points), Py(points))

\* ---------------------------------------------------------------- inputs
Grid == (0..MaxX) \X (0..MaxY)
SeqGrid == (0..SeqX) \X (0..SeqY)
DenseGrid == (0..DenseX) \X (0..DenseY)

SeqsUpTo(S, n) == UNION {[1..m -> S] : m \in 0..n}

\* the points of the grid listed column by column and row by row
RECURSIVE Listing(_, _)
Listing(S, k) ==
    IF S = {} THEN <<>>
    ELSE LET p == CHOOSE q \in S : \A r \in S :
                     q[k] < r[k] \/ (q[k] = r[k] /\ q[3 - k] <= r[3 - k])
         IN  <<p>> \o Listing(S \ {p}, k)

Reverse(s) == [i \in 1..Len(s) |-> s[Len(s) + 1 - i]]

GridOrders ==
    {Listing(Grid, 1), Listing(Grid, 2),
     Reverse(Listing(Grid, 1)), Reverse(Listing(Grid, 2))}

\* every sequence of at most MaxLen points
SeqInputs == SeqsUpTo(SeqGrid, MaxLen)

\* every set of at most MaxPts distinct grid points, in each of the four
\* listing orders
SetInputs ==
    {SelectSeq(o, LAMBDA p : p \in S) :
        o \in GridOrders, S \in {T \in SUBSET Grid : Cardinality(T) <= MaxPts}}

Inputs == SeqInputs \cup SetInputs

\* dense inputs: a short head followed by a run of copies of one point
DenseInputs ==
    {h \o [i \in 1..k |-> q] :
        h \in SeqsUpTo(DenseGrid, MaxHead), q \in DenseGrid, k \in 1..MaxRun}

DMins == (1..MaxDMin) \cup {Inf}

\* ----------------------------------------------------------------- state
VARIABLES
    points,      \* the input sequence
    pc,          \* position in main: "start", "bf", "done"; "strip" after a strip run
    bf,          \* result of brute_force_closest_pair(points)
    dnc,         \* result of closest_pair_dnc(points)
    calls,       \* the invocations (px, py) of _closest_pair_rec made so far
    strip_in,    \* arguments (strip, d_min) of a direct call of _closest_in_strip
    strip_out    \* its result

vars == <<points, pc, bf, dnc, calls, strip_in, strip_out>>

Unset == [dist |-> Inf, pair |-> <<>>]

InitWith(P) ==
    /\ points \in P
    /\ pc = "start"
    /\ bf = Unset
    /\ dnc = Unset
    /\ calls = {}
    /\ strip_in = <<>>
    /\ strip_out = Unset

Init == InitWith(Inputs)
InitDense == InitWith(DenseInputs)
InitStrip == InitWith(SeqInputs)

\* main: bf_distance, bf_pair = brute_force_closest_pair(points)
CallBruteForce ==
    /\ pc = "start"
    /\ bf' = brute_force_closest_pair(points)
    /\ pc' = "bf"
    /\ UNCHANGED <<points, dnc, calls, strip_in, strip_out>>

\* main: dnc_distance, dnc_pair = closest_pair_dnc(points)
CallDnc ==
    /\ pc = "bf"
    /\ dnc' = closest_pair_dnc(points)
    /\ calls' = DncCalls(points)
    /\ pc' = "done"
    /\ UNCHANGED <<points, bf, strip_in, strip_out>>

\* _closest_in_strip applied to the points in ascending y order and a
\* positive d_min
CallStrip ==
    /\ pc = "start"
    /\ \E d \in DMins :
          LET s == Py(points) IN
          /\ strip_in' = <<s, d>>
          /\ strip_out' = _closest_in_strip(s, d)
    /\ pc' = "strip"
    /\ UNCHANGED <<points, bf, dnc, calls>>

Next == CallBruteForce \/ CallDnc

NextStrip == CallStrip

Spec == Init /\ [][Next]_vars
SpecDense == InitDense /\ [][Next]_vars
SpecStrip == InitStrip /\ [][NextStrip]_vars

\* ------------------------------------------------------- claim helpers
IndexPairs(P) == {c \in (1..Len(P)) \X (1..Len(P)) : c[1] < c[2]}

PairDist(P, c) == euclidean_distance(P[c[1]], P[c[2]])

\* the minimum over all index pairs i < j of the distance between P[i], P[j]
MinPairDist(P) ==
    IF Len(P) < 2 THEN Inf
    ELSE LET ds == {PairDist(P, c) : c \in IndexPairs(P)}
         IN  CHOOSE m \in ds : \A d \in ds : m <= d

\* the first index pair, in scan order, at the minimum distance
FirstMinPair(P) ==
    LET m == MinPairDist(P)
        mins == {c \in IndexPairs(P) : PairDist(P, c) = m}
    IN  CHOOSE c \in mins :
           \A e \in mins : c[1] < e[1] \/ (c[1] = e[1] /\ c[2] <= e[2])

Range(s) == {s[i] : i \in 1..Len(s)}

Count(s, p) == Cardinality({i \in 1..Len(s) : s[i] = p})

IsPerm(s, t) == \A p \in Range(s) \cup Range(t) : Count(s, p) = Count(t, p)

SortedAsc(s, k) == \A i \in 1..(Len(s) - 1) : s[i][k] <= s[i + 1][k]

HasDuplicate(P) == \E c \in IndexPairs(P) : P[c[1]] = P[c[2]]

\* the invocations that split (more than 3 points)
Splits == {c \in calls : Len(c[1]) > 3}

\* ---------------------------------------------------------------- claims
TopPx == Px(points)
TopPy == Py(points)

\* C1: Agreement - for every input, closest_pair_dnc returns exactly the
\* distance brute_force_closest_pair returns, which is the minimum over all
\* index pairs i < j of the distance between P[i] and P[j].
C1_Agreement ==
    pc = "done" => /\ dnc.dist = bf.dist
                   /\ dnc.dist = MinPairDist(points)

\* a run with a nested invocation whose own result is not the minimum of its
\* px (its py lacks a point of px), the top-level result being the minimum
C1_Witness ==
    /\ pc = "done"
    /\ dnc.dist > 0
    /\ dnc.dist = bf.dist
    /\ \E c \in Splits :
          /\ Len(c[1]) < Len(points)
          /\ _closest_pair_rec(c[1], c[2]).dist # MinPairDist(c[1])

\* C2: SearchResult invariant - for both functions the pair is (None, None)
\* iff the distance is inf iff the input has fewer than 2 points.
C2_SearchResult ==
    /\ pc \in {"bf", "done"} =>
          /\ (bf.pair = NoPair) = (bf.dist = Inf)
          /\ (bf.dist = Inf) = (Len(points) < 2)
    /\ pc = "done" =>
          /\ (dnc.pair = NoPair) = (dnc.dist = Inf)
          /\ (dnc.dist = Inf) = (Len(points) < 2)

\* a run that splits and whose top strip scan reports no improvement
\* (d_min, (None, None)), the result still carrying a pair
C2_Witness ==
    /\ pc = "done"
    /\ Len(points) > 3
    /\ Len(Strip(TopPx, TopPy)) >= 2
    /\ _closest_in_strip(Strip(TopPx, TopPy), DMin(TopPx, TopPy)).pair = NoPair
    /\ dnc.pair # NoPair
    /\ dnc.dist # Inf

\* C3: Pair validity - for an input of at least 2 points the pair returned
\* by closest_pair_dnc holds the points of two distinct input positions and
\* their distance is the returned distance.
C3_PairValid ==
    (pc = "done" /\ Len(points) >= 2) =>
        /\ Len(dnc.pair) = 2
        /\ \E i, j \in 1..Len(points) :
              i # j /\ points[i] = dnc.pair[1] /\ points[j] = dnc.pair[2]
        /\ euclidean_distance(dnc.pair[1], dnc.pair[2]) = dnc.dist

\* a run whose result pair comes from the strip scan of the top invocation
C3_Witness ==
    /\ pc = "done"
    /\ Len(points) > 3
    /\ dnc.dist > 0
    /\ FLt(dnc.dist, DMin(TopPx, TopPy))
    /\ dnc.pair = _closest_in_strip(Strip(TopPx, TopPy), DMin(TopPx, TopPy)).pair
    /\ dnc.pair[1] # dnc.pair[2]

\* C4: Brute-force tie-break - brute_force_closest_pair returns
\* (P[i], P[j]) for the first index pair (i, j), in scan order, at the
\* minimum pairwise distance.
C4_FirstMinPair ==
    (pc \in {"bf", "done"} /\ Len(points) >= 2) =>
        LET c == FirstMinPair(points) IN
        bf.pair = <<points[c[1]], points[c[2]]>>

\* a run in which a later index pair ties the minimum with other points
C4_Witness ==
    /\ pc = "bf"
    /\ Len(points) >= 3
    /\ bf.dist > 0
    /\ \E e \in IndexPairs(points) :
          /\ PairDist(points, e) = bf.dist
          /\ <<points[e[1]], points[e[2]]>> # bf.pair

\* C5: Zero distance - when two input positions hold identical coordinates
\* both functions return distance 0 with a pair of two identical points.
C5_ZeroDistance ==
    HasDuplicate(points) =>
        /\ pc \in {"bf", "done"} =>
              bf.dist = 0 /\ Len(bf.pair) = 2 /\ bf.pair[1] = bf.pair[2]
                 /\ bf.pair[1] # None
        /\ pc = "done" =>
              dnc.dist = 0 /\ Len(dnc.pair) = 2 /\ dnc.pair[1] = dnc.pair[2]
                 /\ dnc.pair[1] # None

\* a run that splits, where a half already reports d_min = 0 and the strip
\* is empty
C5_Witness ==
    /\ pc = "done"
    /\ Len(points) > 3
    /\ HasDuplicate(points)
    /\ DMin(TopPx, TopPy) = 0
    /\ Strip(TopPx, TopPy) = <<>>
    /\ dnc.dist = 0

\* C6: Same point set - in every invocation of _closest_pair_rec(px, py),
\* py is a permutation of px.
C6_SamePointSet ==
    \A c \in calls : IsPerm(c[1], c[2])

\* C7: Strip completeness - in every invocation that splits, both points of
\* every pair of one point of px_left and one point of px_right closer than
\* d_min are members of the strip.
C7_StripComplete ==
    \A c \in Splits :
        LET px == c[1]
            py == c[2]
            st == Range(Strip(px, py))
        IN  \A a \in Range(PxLeft(px)) : \A b \in Range(PxRight(px)) :
               FLt(euclidean_distance(a, b), DMin(px, py)) =>
                  (a \in st /\ b \in st)

\* C8: StripMerge result - for a strip in ascending y order and d_min > 0,
\* _closest_in_strip returns the smaller of d_min and the minimum pairwise
\* distance of the strip, and the pair (None, None) exactly when no pair of
\* the strip is strictly closer than d_min.
C8_StripResult ==
    pc = "strip" =>
        LET s == strip_in[1]
            d == strip_in[2]
            m == MinPairDist(s)
        IN  /\ SortedAsc(s, 2)
            /\ strip_out.dist = (IF FLt(m, d) THEN m ELSE d)
            /\ (strip_out.pair = NoPair) = ~FLt(m, d)

\* a strip run that improves on a finite d_min while the window cut leaves
\* some pair uncompared
C8_Witness ==
    /\ pc = "strip"
    /\ strip_in[2] # Inf
    /\ Len(strip_in[1]) >= 3
    /\ FLt(strip_out.dist, strip_in[2])
    /\ strip_out.dist > 0
    /\ \E c \in IndexPairs(strip_in[1]) :
          ~IntLtDist(strip_in[1][c[2]][2] - strip_in[1][c[1]][2], strip_out.dist)

\* C9: Ordering invariant - in every invocation of _closest_pair_rec px is
\* ascending in x and py ascending in y, and every strip passed to
\* _closest_in_strip is ascending in y.
C9_Ordering ==
    /\ \A c \in calls : SortedAsc(c[1], 1) /\ SortedAsc(c[2], 2)
    /\ \A c \in Splits : SortedAsc(Strip(c[1], c[2]), 2)

\* a run with a nested invocation that splits and scans a strip of at least
\* two points, with points sharing y coordinates in the input
C9_Witness ==
    /\ pc = "done"
    /\ \E c \in Splits :
          /\ Len(c[1]) < Len(points)
          /\ Len(Strip(c[1], c[2])) >= 2
    /\ ~SortedAsc(points, 2)
    /\ ~SortedAsc(points, 1)

\* C10: Strip comparison bound - for every strip passed to
\* _closest_in_strip and every outer index i, at most 7 distance comparisons
\* are made for that i.
C10_ComparisonBound ==
    \A c \in Splits :
        LET st == Strip(c[1], c[2])
            r == StripRun(st, DMin(c[1], c[2]))
        IN  \A i \in 1..Len(st) : r.counts[i] <= 7

====
